---- MODULE Spec2Model ----
(***************************************************************************)
(* Model of LoginSelectorPage                                              *)
(* (extensions/sql-migration/src/wizard/loginSelectorPage.ts).             *)
(*                                                                         *)
(* Strings are sequences of one-character strings so that toLowerCase and  *)
(* indexOf are computed, not assumed.  A JavaScript value that may be      *)
(* undefined is a record [def, v].  An array index i of the source is the  *)
(* index i+1 of the sequence that models the array.                        *)
(*                                                                         *)
(* A handler runs without interruption from one await of an outside        *)
(* operation (a login query, the validation dialog, the debounce timer)    *)
(* to the next; awaits of host property updates are part of the segment.   *)
(***************************************************************************)
EXTENDS Integers, Sequences, FiniteSets, TLC

\* ------------------------------------------------------------------ bounds
\* Number of _loadLoginList executions that may exist at the same time.
MaxLoads == 2
\* Number of user events (page entered or left, click, selection, typing) in a run.
MaxEvents == 4

\* ------------------------------------------------- JavaScript value helpers
Undef == [def |-> FALSE, v |-> <<>>]
Some(x) == [def |-> TRUE, v |-> x]

\* String.prototype.toLowerCase, one character
LowerChar(c) ==
    CASE c = "A" -> "a"
      [] c = "B" -> "b"
      [] c = "D" -> "d"
      [] c = "E" -> "e"
      [] c = "F" -> "f"
      [] c = "N" -> "n"
      [] c = "W" -> "w"
      [] OTHER -> c

ToLowerCase(s) == [i \in 1..Len(s) |-> LowerChar(s[i])]

\* String.prototype.indexOf: the first 0-based position of t in s, or -1
RECURSIVE IndexOfFrom(_, _, _)
IndexOfFrom(s, t, k) ==
    IF k + Len(t) > Len(s) THEN -1
    ELSE IF SubSeq(s, k + 1, k + Len(t)) = t THEN k
    ELSE IndexOfFrom(s, t, k + 1)

IndexOf(s, t) == IndexOfFrom(s, t, 0)


\* ------------------------------------------------------- the login universe
WindowsLoginType == <<"w">>
SqlLoginType == <<"s">>

LoginAb == [loginName |-> <<"A", "b">>, loginType |-> WindowsLoginType,
            defaultDatabaseName |-> <<"m">>, status |-> Some(<<"E">>)]
LoginB == [loginName |-> <<"B">>, loginType |-> SqlLoginType,
           defaultDatabaseName |-> <<"m">>, status |-> Some(<<"D">>)]
LoginSa == [loginName |-> <<"s", "a">>, loginType |-> SqlLoginType,
            defaultDatabaseName |-> <<"m">>, status |-> Some(<<"E">>)]
LoginD == [loginName |-> <<"d">>, loginType |-> SqlLoginType,
           defaultDatabaseName |-> <<"m">>, status |-> Some(<<"D">>)]

\* what a successful source query may return (logins, system logins)
SourceQueryResults ==
    { [logins |-> <<LoginAb, LoginB>>, system |-> <<LoginSa, LoginD>>] }

\* what a successful target query may return (login names on the target)
TargetQueryResults == { << <<"a", "b">> >> }

\* logins a previous session may have saved in the state model
SavedLogins == { Undef, Some(<<LoginAb>>) }

\* text typed into the login search box, the system-login search box and
\* the Entra domain box
SearchTexts == { <<"a">>, <<"W">> }
SystemSearchTexts == { <<"A">> }
DomainTexts == { <<"d">> }

\* the wizard's pages: this page and its two neighbours
PageNumbers == {"previous", "this", "next"}
PageIndex(p) == CASE p = "previous" -> 0 [] p = "this" -> 1 [] p = "next" -> 2

\* validation results the dialog may leave in the state model
ValidationOutcomes ==
    { << [state |-> "Succeeded", errors |-> <<>>] >>,
      << [state |-> "Failed", errors |-> <<"e1">>] >> }

\* -------------------------------------------------------------------- state
VARIABLES
    phase,        \* "constructed" until registerContent has run, then "registered"
    page,         \* the private fields of LoginSelectorPage
    view,         \* the UI components the page created
    wizard,       \* the wizard: message, Next button, custom button, validator
    model,        \* migrationStateModel and its _loginMigrationModel
    filterTimer,  \* the pending debounced call of _filterTableList
    filterRun,    \* the execution of _filterTableList suspended at line 240
    loads,        \* the executions of _loadLoginList
    dialog,       \* the login pre-migration validation dialog
    nav,          \* the last call of the navigation validator and its result
    events        \* the number of user events so far

vars == <<phase, page, view, wizard, model, filterTimer, filterRun, loads, dialog, nav,
          events>>

\* The part of the state the page's methods read and write, as one value.
Cur == [page |-> page, view |-> view, wizard |-> wizard, model |-> model,
        filterTimer |-> filterTimer]

Commit(S) ==
    /\ page' = S.page
    /\ view' = S.view
    /\ wizard' = S.wizard
    /\ model' = S.model
    /\ filterTimer' = S.filterTimer

ErrorMessage(text) == [level |-> "Error", text |-> text]

\* ------------------------------------------ getters of the state model
\* LoginMigrationModel.selectedWindowsLogins
selectedWindowsLogins(S) ==
    /\ S.model.loginsForMigration.def
    /\ \E i \in DOMAIN S.model.loginsForMigration.v :
          S.model.loginsForMigration.v[i].loginType = WindowsLoginType

\* MigrationStateModel.isLoginMigrationTargetValidated
isLoginMigrationTargetValidated(S) ==
    /\ Len(S.model.validateLoginMigration) > 0
    /\ \A i \in DOMAIN S.model.validateLoginMigration :
          S.model.validateLoginMigration[i].state = "Succeeded"

\* loginsForMigration?.length > 0
HasLoginsForMigration(S) ==
    S.model.loginsForMigration.def /\ Len(S.model.loginsForMigration.v) > 0

\* ------------------------------------------------------ methods of the page
\* the property .title of a string primitive
TitleOfString(s) == Undef

selectedLogins(S) ==
    LET rows == S.view.loginSelectorTable.data
        logins == S.view.loginSelectorTable.selectedRows
        inRange == SelectSeq(logins, LAMBDA rowIdx : rowIdx < Len(rows))
    IN [k \in 1..Len(inRange) |->
            [loginName |-> rows[inRange[k] + 1][2],
             loginType |-> rows[inRange[k] + 1][3],
             defaultDatabaseName |-> rows[inRange[k] + 1][4],
             status |-> TitleOfString(rows[inRange[k] + 1][5])]]

updateNextButton(S) ==
    IF S.page.isCurrentPage
    THEN [S EXCEPT !.wizard.nextButton =
              [label |-> "LOGIN_MIGRATE_BUTTON_TEXT", enabled |-> HasLoginsForMigration(S)]]
    ELSE S

resetNextButton(S) ==
    [S EXCEPT !.wizard.nextButton = [label |-> "NEXT_LABEL", enabled |-> TRUE]]

refreshAADInputBox(S) ==
    [S EXCEPT !.view.aadDomainNameContainer = selectedWindowsLogins(S),
              !.view.loginSelectorTable.height =
                  IF selectedWindowsLogins(S) THEN 600 ELSE 650]

updateValuesOnSelection(S) ==
    LET sel == selectedLogins(S)
        S1 == [S EXCEPT !.view.loginCount =
                            [selected |-> Len(sel),
                             total |-> Len(S.view.loginSelectorTable.data)],
                        !.model.loginsForMigration = Some(sel)]
    IN updateNextButton(refreshAADInputBox(S1))

_isAllSelectedLoginsValidated(S) ==
    \A i \in DOMAIN selectedLogins(S) :
        selectedLogins(S)[i].loginName \in S.page.successfullyValidatedLogins

\* getLoginStatusMessage (api/utils): the title of the target-status cell
getLoginStatusMessage(isLoginOnTarget) == IF isLoginOnTarget THEN <<"F">> ELSE <<"N">>

\* a === b after toLowerCase on both sides
EqualsIgnoringCase(a, b) == ToLowerCase(a) = ToLowerCase(b)

\* LoginRowMatches without toLowerCase on the row's columns
LoginRowMatchesCaseSensitive(row, value) ==
    LET searchText == ToLowerCase(value)
    IN \/ IndexOf(row[2], searchText) > -1
       \/ IndexOf(row[3], searchText) > -1
       \/ IndexOf(row[4], searchText) > -1
       \/ IndexOf(row[5].v, searchText) > -1
       \/ IndexOf(row[6].title, searchText) > -1

\* the predicate of the filter in _filterTableList; a row is
\* [checked, sourceLogin, loginType, defaultDatabase, status, targetStatus]
LoginRowMatches(row, value) ==
    LET searchText == ToLowerCase(value)
    IN \/ IndexOf(ToLowerCase(row[2]), searchText) > -1
       \/ IndexOf(ToLowerCase(row[3]), searchText) > -1
       \/ IndexOf(ToLowerCase(row[4]), searchText) > -1
       \/ IndexOf(ToLowerCase(row[5].v), searchText) > -1
       \/ IndexOf(ToLowerCase(row[6].title), searchText) > -1

\* the predicate of the filter in _filterSystemTableList; a row is
\* [sourceLogin, loginType, defaultDatabase, status, targetStatus]
SystemRowMatches(row, value) ==
    LET searchText == ToLowerCase(value)
    IN \/ IndexOf(ToLowerCase(row[1]), searchText) > -1
       \/ IndexOf(ToLowerCase(row[2]), searchText) > -1
       \/ IndexOf(ToLowerCase(row[3]), searchText) > -1
       \/ IndexOf(ToLowerCase(row[4].v), searchText) > -1
       \/ IndexOf(ToLowerCase(row[5].title), searchText) > -1

\* the rows _filterTableList hands to the table (lines 220-231)
FilteredLoginRows(tableValues, value) ==
    IF tableValues.def /\ value.def /\ Len(value.v) > 0
    THEN SelectSeq(tableValues.v, LAMBDA row : LoginRowMatches(row, value.v))
    ELSE IF tableValues.def THEN tableValues.v ELSE <<>>

\* the rows _filterSystemTableList hands to the table (lines 247-258)
FilteredSystemRows(tableValues, value) ==
    IF tableValues.def /\ value.def /\ Len(value.v) > 0
    THEN SelectSeq(tableValues.v, LAMBDA row : SystemRowMatches(row, value.v))
    ELSE IF tableValues.def THEN tableValues.v ELSE <<>>

\* the indices of the rows whose login is in selectedLogins (lines 233-238)
RECURSIVE RowsToSelect(_, _, _)
RowsToSelect(tableRows, selected, rowIdx) ==
    IF rowIdx >= Len(tableRows) THEN <<>>
    ELSE (IF (\E i \in DOMAIN selected :
                 EqualsIgnoringCase(selected[i].loginName, tableRows[rowIdx + 1][2]))
          THEN <<rowIdx>> ELSE <<>>) \o RowsToSelect(tableRows, selected, rowIdx + 1)

\* @debounce(500): a call of _filterTableList only (re)starts the timer with
\* its arguments; the body runs when the timer fires.
FilterTableListCall(S, value, selectedList) ==
    [S EXCEPT !.filterTimer =
        [pending |-> TRUE, value |-> value, selectedList |-> selectedList]]

NoTimer == [pending |-> FALSE, value |-> Undef, selectedList |-> Undef]

_filterSystemTableList(S, value) ==
    [S EXCEPT !.page.filterSystemLoginTableValue = value,
              !.view.systemLoginTable =
                  FilteredSystemRows(S.page.systemLoginTableValues, value)]

\* ----------------------------------------------- the navigation validator
\* LoginSelectorValidator without the comparison against the validated domain
LoginSelectorValidatorNoDomainCheck(S, newPage, lastPage) ==
    IF PageIndex(newPage) < PageIndex(lastPage)
    THEN [result |-> TRUE, message |-> ErrorMessage("")]
    ELSE IF Len(selectedLogins(S)) = 0 \/ ~isLoginMigrationTargetValidated(S)
    THEN [result |-> FALSE,
          message |-> ErrorMessage("SELECT_LOGIN_AND_RUN_VALIDATION_TO_CONTINUE")]
    ELSE IF selectedWindowsLogins(S)
            /\ (~S.model.aadDomainName.def \/ Len(S.model.aadDomainName.v) = 0)
    THEN [result |-> FALSE, message |-> ErrorMessage("ENTER_ENTRA_ID")]
    ELSE IF ~_isAllSelectedLoginsValidated(S)
    THEN [result |-> FALSE, message |-> ErrorMessage("VALIDATE_ALL_LOGINS")]
    ELSE [result |-> TRUE, message |-> ErrorMessage("")]

\* the callback registered by onPageEnter (lines 89-132): its return value
\* and the wizard message it leaves
LoginSelectorValidator(S, newPage, lastPage) ==
    IF PageIndex(newPage) < PageIndex(lastPage)
    THEN [result |-> TRUE, message |-> ErrorMessage("")]
    ELSE IF Len(selectedLogins(S)) = 0 \/ ~isLoginMigrationTargetValidated(S)
    THEN [result |-> FALSE,
          message |-> ErrorMessage("SELECT_LOGIN_AND_RUN_VALIDATION_TO_CONTINUE")]
    ELSE IF selectedWindowsLogins(S)
            /\ (~S.model.aadDomainName.def \/ Len(S.model.aadDomainName.v) = 0)
    THEN [result |-> FALSE, message |-> ErrorMessage("ENTER_ENTRA_ID")]
    ELSE IF selectedWindowsLogins(S)
            /\ S.page.successfullyValidatedEntraDomain # S.model.aadDomainName
    THEN [result |-> FALSE, message |-> ErrorMessage("ENTRA_DOMAIN_NOT_VALIDATED")]
    ELSE IF ~_isAllSelectedLoginsValidated(S)
    THEN [result |-> FALSE, message |-> ErrorMessage("VALIDATE_ALL_LOGINS")]
    ELSE [result |-> TRUE, message |-> ErrorMessage("")]

\* the callback registered by onPageLeave (lines 144-146)
AcceptAllValidator(S, newPage, lastPage) ==
    [result |-> TRUE, message |-> S.wizard.message]

\* ------------------------------------------------------------ login queries
RefreshText(id, numSource, numTarget) ==
    [id |-> id, numSourceLogins |-> numSource, numTargetLogins |-> numTarget]

_markRefreshDataStart(S) ==
    [S EXCEPT !.view.refreshLoading = TRUE,
              !.wizard.nextButton.enabled = FALSE,
              !.view.refreshResultsInfoBox =
                  [display |-> TRUE,
                   text |-> RefreshText("LOGIN_MIGRATION_REFRESHING_LOGIN_DATA", 0, 0),
                   style |-> "information"]]

_markRefreshDataComplete(S, numSourceLogins, numTargetLogins) ==
    updateNextButton(
        [S EXCEPT !.view.refreshLoading = FALSE,
                  !.view.refreshResultsInfoBox =
                      [display |-> TRUE,
                       text |-> RefreshText("LOGIN_MIGRATION_REFRESH_LOGIN_DATA_SUCCESSFUL",
                                            numSourceLogins, numTargetLogins),
                       style |-> "success"]])

\* getSourceLogins (api/utils) succeeding: it stores what it collected
getSourceLoginsSucceeds(S, result) ==
    [S EXCEPT !.model.loginsOnSource = result.logins,
              !.model.systemLoginsOnSource = result.system,
              !.model.collectedSourceLogins = TRUE]

\* _getSourceLoginsCatch without `this._refreshLoading.loading = false`
_getSourceLoginsCatchKeepsLoading(S) ==
    [S EXCEPT !.view.refreshResultsInfoBox.style = "error",
              !.view.refreshResultsInfoBox.text =
                  RefreshText("LOGIN_MIGRATION_REFRESH_SOURCE_LOGIN_DATA_FAILED", 0, 0),
              !.wizard.message = ErrorMessage("LOGIN_MIGRATIONS_GET_LOGINS_ERROR_TITLE(source)")]

\* the catch block of _getSourceLogins (lines 553-574)
_getSourceLoginsCatch(S) ==
    [S EXCEPT !.view.refreshLoading = FALSE,
              !.view.refreshResultsInfoBox.style = "error",
              !.view.refreshResultsInfoBox.text =
                  RefreshText("LOGIN_MIGRATION_REFRESH_SOURCE_LOGIN_DATA_FAILED", 0, 0),
              !.wizard.message = ErrorMessage("LOGIN_MIGRATIONS_GET_LOGINS_ERROR_TITLE(source)")]

\* collectTargetLogins resolving inside _getTargetLogins (lines 584-592)
_getTargetLoginsSucceeds(S, targetLogins) ==
    [S EXCEPT !.model.collectedTargetLogins = TRUE,
              !.model.loginsOnTarget = targetLogins]

\* the catch block of _getTargetLogins (lines 597-618)
_getTargetLoginsCatch(S) ==
    [S EXCEPT !.view.refreshLoading = FALSE,
              !.view.refreshResultsInfoBox.style = "error",
              !.view.refreshResultsInfoBox.text =
                  RefreshText("LOGIN_MIGRATION_REFRESH_TARGET_LOGIN_DATA_FAILED", 0, 0),
              !.wizard.message = ErrorMessage("LOGIN_MIGRATIONS_GET_LOGINS_ERROR_TITLE(target)")]

isTargetInstanceSet(S) == S.model.targetInstanceSet

\* ------------------------------------------------------------ _loadLoginList
IdleLoad == [pc |-> "idle", runQuery |-> FALSE, selectedLogins |-> <<>>,
             sourceQuery |-> "none", targetQuery |-> "none",
             sourceIssued |-> 0, targetIssued |-> 0]

IsOnTarget(S, loginName) ==
    \E i \in DOMAIN S.model.loginsOnTarget :
        EqualsIgnoringCase(S.model.loginsOnTarget[i], loginName)

TargetStatusCell(S, loginName) ==
    [icon |-> IsOnTarget(S, loginName),
     title |-> getLoginStatusMessage(IsOnTarget(S, loginName))]

\* one row of _loginTableValues (lines 659-674)
LoginTableRow(S, l, row) ==
    << (\E i \in DOMAIN l.selectedLogins :
           EqualsIgnoringCase(l.selectedLogins[i].loginName, row.loginName)),
       row.loginName, row.loginType, row.defaultDatabaseName, row.status,
       TargetStatusCell(S, row.loginName) >>

\* one row of _systemLoginTableValues (lines 677-689)
SystemTableRow(S, row) ==
    << row.loginName, row.loginType, row.defaultDatabaseName, row.status,
       TargetStatusCell(S, row.loginName) >>

\* lines 653-692: build both row lists, filter, mark the refresh complete
LoadBuildTables(S, l) ==
    LET sourceLogins == S.model.loginsOnSource
        sourceSystemLogins == S.model.systemLoginsOnSource
        S1 == [S EXCEPT
                 !.page.loginNames =
                     [i \in 1..Len(sourceLogins) |-> sourceLogins[i].loginName],
                 !.page.loginTableValues =
                     Some([i \in 1..Len(sourceLogins) |->
                              LoginTableRow(S, l, sourceLogins[i])])]
        S2 == FilterTableListCall(S1, S1.page.filterTableValue, Undef)
        S3 == [S2 EXCEPT
                 !.page.systemLoginTableValues =
                     Some([i \in 1..Len(sourceSystemLogins) |->
                              SystemTableRow(S, sourceSystemLogins[i])])]
        S4 == _filterSystemTableList(S3, S3.page.filterSystemLoginTableValue)
    IN [S |-> _markRefreshDataComplete(S4, Len(sourceLogins), Len(S.model.loginsOnTarget)),
        l |-> IdleLoad]

\* LoadTargetStage querying the target whether or not it was collected before
LoadTargetStageAlways(S, l) ==
    IF isTargetInstanceSet(_markRefreshDataStart(S))
    THEN [S |-> _markRefreshDataStart(S),
          l |-> [l EXCEPT !.pc = "awaitTarget", !.targetQuery = "pending",
                          !.targetIssued = @ + 1]]
    ELSE LoadBuildTables(_markRefreshDataStart(S), l)

\* lines 647-651 with the call of _getTargetLogins up to its await
LoadTargetStage(S, l) ==
    IF l.runQuery \/ ~S.model.collectedTargetLogins
    THEN IF isTargetInstanceSet(_markRefreshDataStart(S))
         THEN [S |-> _markRefreshDataStart(S),
               l |-> [l EXCEPT !.pc = "awaitTarget", !.targetQuery = "pending",
                               !.targetIssued = @ + 1]]
         ELSE LoadBuildTables(_markRefreshDataStart(S), l)
    ELSE LoadBuildTables(S, l)

\* LoadSourceStage without the await on _getSourceLogins
LoadSourceStageNoAwait(S, l) ==
    IF l.runQuery \/ ~S.model.collectedSourceLogins
    THEN LoadTargetStage(_markRefreshDataStart(S),
             [l EXCEPT !.sourceQuery = "pending", !.sourceIssued = @ + 1])
    ELSE LoadTargetStage(S, l)

\* lines 641-645 with the call of _getSourceLogins up to its await
LoadSourceStage(S, l) ==
    IF l.runQuery \/ ~S.model.collectedSourceLogins
    THEN [S |-> _markRefreshDataStart(S),
          l |-> [l EXCEPT !.pc = "awaitSource", !.sourceQuery = "pending",
                          !.sourceIssued = @ + 1]]
    ELSE LoadTargetStage(S, l)

\* lines 637-639: a new execution of _loadLoginList, run to its first await
LoadBegin(S, runQuery) ==
    LoadSourceStage(S,
        [IdleLoad EXCEPT !.runQuery = runQuery,
                         !.selectedLogins =
                             IF S.model.loginsForMigration.def
                             THEN S.model.loginsForMigration.v ELSE <<>>])

\* --------------------------------------------------- validation result
\* updateValidationResultUI() as the dialog calls it (initializing undefined)
updateValidationResultUI(S) ==
    LET results == S.model.validateLoginMigration
        hasResults == Len(results) > 0
        canceled == (\E i \in DOMAIN results : results[i].state = "Canceled")
        hasErrors == (\E i \in DOMAIN results : Len(results[i].errors) > 0)
        msg == IF hasResults
               THEN IF hasErrors
                    THEN IF canceled
                         THEN "VALIDATION_MESSAGE_CANCELED_ERRORS"
                         ELSE "VALIDATE_LOGIN_MIGRATION_VALIDATION_COMPLETED_ERRORS"
                    ELSE "VALIDATION_MESSAGE_CANCELED"
               ELSE "VALIDATION_MESSAGE_NOT_RUN"
        sel == selectedLogins(S)
    IN IF isLoginMigrationTargetValidated(S)
       THEN [S EXCEPT
               !.page.successfullyValidatedLogins =
                   {sel[i].loginName : i \in 1..Len(sel)},
               !.page.successfullyValidatedEntraDomain =
                   IF selectedWindowsLogins(S) THEN S.model.aadDomainName ELSE @,
               !.wizard.message =
                   [level |-> "Information",
                    text |-> "LOGIN_MIGRATION_VALIDATION_MESSAGE_SUCCESS"]]
       ELSE [S EXCEPT !.page.successfullyValidatedLogins = {},
                      !.wizard.message = ErrorMessage(msg)]

\* ------------------------------------------------------------ initial state
NoNav == [called |-> FALSE, newPage |-> "this", lastPage |-> "this", result |-> FALSE]

Init ==
    /\ phase = "constructed"
    /\ page = [isCurrentPage |-> FALSE,
               loginNames |-> <<>>,
               loginTableValues |-> Undef,
               filterTableValue |-> Undef,
               systemLoginTableValues |-> Undef,
               filterSystemLoginTableValue |-> Undef,
               successfullyValidatedLogins |-> {},
               successfullyValidatedEntraDomain |-> Undef]
    /\ view = [refreshResultsInfoBox |->
                   [display |-> FALSE, text |-> RefreshText("", 0, 0), style |-> "success"],
               windowsAuthInfoBox |-> FALSE,
               refreshLoading |-> FALSE,
               aadDomainNameContainer |-> FALSE,
               loginSelectorTable |-> [data |-> <<>>, selectedRows |-> <<>>, height |-> 600],
               loginCount |-> [selected |-> 0, total |-> 0],
               systemLoginTable |-> <<>>]
    /\ wizard = [message |-> [level |-> "Information", text |-> ""],
                 nextButton |-> [label |-> "NEXT_LABEL", enabled |-> TRUE],
                 customButtonHidden |-> TRUE,
                 navigationValidator |-> "none"]
    /\ \E saved \in SavedLogins, targetSet \in BOOLEAN :
         model = [loginsForMigration |-> saved,
                  collectedSourceLogins |-> FALSE,
                  collectedTargetLogins |-> FALSE,
                  loginsOnSource |-> <<>>,
                  systemLoginsOnSource |-> <<>>,
                  loginsOnTarget |-> <<>>,
                  aadDomainName |-> Undef,
                  validateLoginMigration |-> <<>>,
                  targetInstanceSet |-> targetSet,
                  isWindowsAuthMigrationSupported |-> TRUE]
    /\ filterTimer = NoTimer
    /\ filterRun = [active |-> FALSE, selectedRows |-> <<>>]
    /\ loads = [s \in 1..MaxLoads |-> IdleLoad]
    /\ dialog = [open |-> FALSE, results |-> <<>>]
    /\ nav = NoNav
    /\ events = 0

\* ------------------------------------------------------------- scheduling
\* A continuation that is ready to run (a resolved await) runs before any
\* new event is dispatched.
ResumePending == \E s \in 1..MaxLoads : loads[s].pc \in {"afterSource", "afterTarget"}

\* the event loop can dispatch a new callback; the wizard acts on the answer
\* of the navigation validator before anything else happens
CanDispatch == ~ResumePending /\ ~nav.called

\* the user does one more thing
UserEvent == events < MaxEvents /\ events' = events + 1

\* the user can operate the page's controls
PageInteractive ==
    /\ phase = "registered"
    /\ page.isCurrentPage
    /\ ~dialog.open
    /\ CanDispatch

FreeSlot(s) ==
    /\ loads[s].pc = "idle"
    /\ \A t \in 1..MaxLoads : loads[t].pc = "idle" => s <= t

\* ----------------------------------------------------------------- actions
\* registerContent (lines 56-76) with createRootContainer and the two tabs
RegisterContent ==
    /\ UNCHANGED events
    /\ phase = "constructed"
    /\ phase' = "registered"
    /\ LET S1 == _filterSystemTableList(Cur, Some(<<>>))
           S2 == [S1 EXCEPT !.view.loginCount =
                                [selected |-> Len(selectedLogins(S1)), total |-> 0]]
       IN Commit(FilterTableListCall(S2, Some(<<>>), S2.model.loginsForMigration))
    /\ UNCHANGED <<filterRun, loads, dialog, nav>>

\* onPageEnter (lines 78-139)
OnPageEnter ==
    /\ UserEvent
    /\ phase = "registered"
    /\ ~page.isCurrentPage
    /\ ~dialog.open
    /\ CanDispatch
    /\ \E s \in 1..MaxLoads :
         /\ FreeSlot(s)
         /\ LET S1 == [Cur EXCEPT !.wizard.customButtonHidden = FALSE,
                                  !.page.isCurrentPage = TRUE]
                S2 == [updateNextButton(S1) EXCEPT
                          !.wizard.navigationValidator = "loginSelector",
                          !.view.windowsAuthInfoBox =
                              ~S1.model.isWindowsAuthMigrationSupported]
                R == LoadBegin(S2, FALSE)
            IN /\ Commit(R.S)
               /\ loads' = [loads EXCEPT ![s] = R.l]
    /\ nav' = NoNav
    /\ UNCHANGED <<phase, filterRun, dialog>>

\* onPageLeave (lines 141-150), called once a page change was accepted
OnPageLeave ==
    /\ UserEvent
    /\ phase = "registered"
    /\ page.isCurrentPage
    /\ nav.called /\ nav.result
    /\ ~dialog.open
    /\ ~ResumePending
    /\ Commit(resetNextButton(
           [Cur EXCEPT !.wizard.customButtonHidden = TRUE,
                       !.wizard.navigationValidator = "acceptAll",
                       !.page.isCurrentPage = FALSE]))
    /\ nav' = NoNav
    /\ UNCHANGED <<phase, filterRun, loads, dialog>>

\* the wizard asks the registered navigation validator about a page change
Navigate ==
    /\ UNCHANGED events
    /\ phase = "registered"
    /\ page.isCurrentPage
    /\ ~dialog.open
    /\ CanDispatch
    /\ \E newPage \in PageNumbers, lastPage \in PageNumbers :
         /\ newPage # lastPage
         /\ lastPage = "this"
         /\ LET r == IF wizard.navigationValidator = "loginSelector"
                     THEN LoginSelectorValidator(Cur, newPage, lastPage)
                     ELSE AcceptAllValidator(Cur, newPage, lastPage)
            IN /\ wizard' = [wizard EXCEPT !.message = r.message]
               /\ nav' = [called |-> TRUE, newPage |-> newPage,
                          lastPage |-> lastPage, result |-> r.result]
    /\ UNCHANGED <<phase, page, view, model, filterTimer, filterRun, loads, dialog>>

\* the validator refused the page change: the wizard stays on this page
NavigationRefused ==
    /\ nav.called /\ ~nav.result
    /\ nav' = NoNav
    /\ UNCHANGED <<phase, page, view, wizard, model, filterTimer, filterRun, loads,
                   dialog, events>>

\* the refresh button's onDidClick (lines 276-278)
RefreshClick ==
    /\ UserEvent
    /\ PageInteractive
    /\ ~view.refreshLoading
    /\ \E s \in 1..MaxLoads :
         /\ FreeSlot(s)
         /\ LET R == LoadBegin(Cur, TRUE)
            IN /\ Commit(R.S)
               /\ loads' = [loads EXCEPT ![s] = R.l]
    /\ UNCHANGED <<phase, filterRun, dialog, nav>>

\* the selections a user can make in a table of n rows
SelectionsOf(n) ==
    { sel \in UNION { [1..k -> 0..(n - 1)] : k \in 0..n } :
        \A i \in 1..Len(sel), j \in 1..Len(sel) : i < j => sel[i] < sel[j] }

\* the table's onRowSelected (lines 355-357) after the user changed the selection
RowSelected ==
    /\ UserEvent
    /\ PageInteractive
    /\ \E sel \in SelectionsOf(Len(view.loginSelectorTable.data)) :
         /\ sel # view.loginSelectorTable.selectedRows
         /\ Commit(updateValuesOnSelection(
                [Cur EXCEPT !.view.loginSelectorTable.selectedRows = sel]))
    /\ UNCHANGED <<phase, filterRun, loads, dialog, nav>>

\* the login search box's onTextChanged (line 168)
SearchTextChanged ==
    /\ UserEvent
    /\ PageInteractive
    /\ \E value \in SearchTexts :
         Commit(FilterTableListCall(Cur, Some(value),
                    Some(IF model.loginsForMigration.def
                         THEN model.loginsForMigration.v ELSE <<>>)))
    /\ UNCHANGED <<phase, filterRun, loads, dialog, nav>>

\* the system-login search box's onTextChanged (line 164)
SystemSearchTextChanged ==
    /\ UserEvent
    /\ PageInteractive
    /\ \E value \in SystemSearchTexts :
         /\ Some(value) # page.filterSystemLoginTableValue
         /\ Commit(_filterSystemTableList(Cur, Some(value)))
    /\ UNCHANGED <<phase, filterRun, loads, dialog, nav>>

\* the Entra domain box's onTextChanged (lines 199-202)
AadDomainTextChanged ==
    /\ UserEvent
    /\ PageInteractive
    /\ view.aadDomainNameContainer
    /\ \E value \in DomainTexts :
         /\ Some(value) # model.aadDomainName
         /\ model' = [model EXCEPT !.aadDomainName = Some(value)]
    /\ UNCHANGED <<phase, page, view, wizard, filterTimer, filterRun, loads, dialog, nav>>

\* loginsForMigration?.length <= 0 (line 759)
NoLoginsForMigration(S) ==
    S.model.loginsForMigration.def /\ Len(S.model.loginsForMigration.v) <= 0

\* _validateLoginPreMigration (lines 758-773), the validate button's onClick
ValidateClick ==
    /\ UserEvent
    /\ phase = "registered"
    /\ ~wizard.customButtonHidden
    /\ ~dialog.open
    /\ CanDispatch
    /\ IF NoLoginsForMigration(Cur)
       THEN /\ wizard' = [wizard EXCEPT !.message = ErrorMessage("SELECT_LOGIN_TO_CONTINUE")]
            /\ UNCHANGED dialog
       ELSE /\ dialog' = [open |-> TRUE, results |-> model.validateLoginMigration]
            /\ UNCHANGED wizard
    /\ UNCHANGED <<phase, page, view, model, filterTimer, filterRun, loads, nav>>

\* the dialog finishes a validation run, stores its results in the state
\* model and calls back updateValidationResultUI
DialogValidationDone ==
    /\ UNCHANGED events
    /\ dialog.open
    /\ CanDispatch
    /\ \E outcome \in ValidationOutcomes :
         Commit(updateValidationResultUI(
             [Cur EXCEPT !.model.validateLoginMigration = outcome]))
    /\ dialog' = [open |-> FALSE, results |-> <<>>]
    /\ UNCHANGED <<phase, filterRun, loads, nav>>

\* the debounce timer fires: _filterTableList runs to its await at line 240
FilterTimerFires ==
    /\ UNCHANGED events
    /\ filterTimer.pending
    /\ ~filterRun.active
    /\ CanDispatch
    /\ LET value == filterTimer.value
           selected == IF filterTimer.selectedList.def
                       THEN filterTimer.selectedList.v ELSE selectedLogins(Cur)
           tableRows == FilteredLoginRows(page.loginTableValues, value)
       IN /\ page' = [page EXCEPT !.filterTableValue = value]
          /\ view' = [view EXCEPT !.loginSelectorTable.data = tableRows]
          /\ filterRun' = [active |-> TRUE,
                           selectedRows |-> RowsToSelect(tableRows, selected, 0)]
    /\ filterTimer' = NoTimer
    /\ UNCHANGED <<phase, wizard, model, loads, dialog, nav>>

\* the table update returned: lines 241-242
FilterUpdateReturns ==
    /\ UNCHANGED events
    /\ filterRun.active
    /\ CanDispatch
    /\ Commit(updateValuesOnSelection(
           [Cur EXCEPT !.view.loginSelectorTable.selectedRows = filterRun.selectedRows]))
    /\ filterRun' = [active |-> FALSE, selectedRows |-> <<>>]
    /\ UNCHANGED <<phase, loads, dialog, nav>>

\* the pc of a load after its query returned
PcAfterQuery(pc, awaiting, after) == IF pc = awaiting THEN after ELSE pc

\* getSourceLogins returns or throws inside _getSourceLogins (lines 551-574)
SourceQueryReturns ==
    /\ UNCHANGED events
    /\ CanDispatch
    /\ \E s \in 1..MaxLoads :
         /\ loads[s].sourceQuery = "pending"
         /\ \/ \E result \in SourceQueryResults :
                 /\ Commit(getSourceLoginsSucceeds(Cur, result))
                 /\ loads' = [loads EXCEPT
                        ![s].sourceQuery = "ok",
                        ![s].pc = PcAfterQuery(@, "awaitSource", "afterSource")]
            \/ /\ Commit(_getSourceLoginsCatch(Cur))
               /\ loads' = [loads EXCEPT
                      ![s].sourceQuery = "failed",
                      ![s].pc = PcAfterQuery(@, "awaitSource", "afterSource")]
    /\ UNCHANGED <<phase, filterRun, dialog, nav>>

\* collectTargetLogins returns or throws inside _getTargetLogins (lines 582-618)
TargetQueryReturns ==
    /\ UNCHANGED events
    /\ CanDispatch
    /\ \E s \in 1..MaxLoads :
         /\ loads[s].targetQuery = "pending"
         /\ \/ \E result \in TargetQueryResults :
                 /\ Commit(_getTargetLoginsSucceeds(Cur, result))
                 /\ loads' = [loads EXCEPT
                        ![s].targetQuery = "ok",
                        ![s].pc = PcAfterQuery(@, "awaitTarget", "afterTarget")]
            \/ /\ Commit(_getTargetLoginsCatch(Cur))
               /\ loads' = [loads EXCEPT
                      ![s].targetQuery = "failed",
                      ![s].pc = PcAfterQuery(@, "awaitTarget", "afterTarget")]
    /\ UNCHANGED <<phase, filterRun, dialog, nav>>

\* _loadLoginList continues after `await this._getSourceLogins()` (line 644)
\* or after `await this._getTargetLogins()` (line 650)
LoadResume ==
    /\ UNCHANGED events
    /\ \E s \in 1..MaxLoads :
         /\ loads[s].pc \in {"afterSource", "afterTarget"}
         /\ LET R == IF loads[s].pc = "afterSource"
                     THEN LoadTargetStage(Cur, loads[s])
                     ELSE LoadBuildTables(Cur, loads[s])
            IN /\ Commit(R.S)
               /\ loads' = [loads EXCEPT ![s] = R.l]
    /\ UNCHANGED <<phase, filterRun, dialog, nav>>

Next ==
    \/ RegisterContent
    \/ OnPageEnter
    \/ OnPageLeave
    \/ Navigate
    \/ NavigationRefused
    \/ RefreshClick
    \/ RowSelected
    \/ SearchTextChanged
    \/ SystemSearchTextChanged
    \/ AadDomainTextChanged
    \/ ValidateClick
    \/ DialogValidationDone
    \/ FilterTimerFires
    \/ FilterUpdateReturns
    \/ SourceQueryReturns
    \/ TargetQueryReturns
    \/ LoadResume

Spec == Init /\ [][Next]_vars

\* ======================================================================
\* Properties
\* ======================================================================

\* the names of the logins on the selected rows that the table displays
SelectedNames ==
    { view.loginSelectorTable.data[view.loginSelectorTable.selectedRows[k] + 1][2] :
        k \in { j \in 1..Len(view.loginSelectorTable.selectedRows) :
                  view.loginSelectorTable.selectedRows[j]
                      < Len(view.loginSelectorTable.data) } }

\* the page change the claim C1 lets through
AcceptedPageChange(newPage, lastPage) ==
    \/ PageIndex(newPage) < PageIndex(lastPage)
    \/ /\ SelectedNames # {}
       /\ isLoginMigrationTargetValidated(Cur)
       /\ SelectedNames \subseteq page.successfullyValidatedLogins
       /\ selectedWindowsLogins(Cur) =>
            /\ model.aadDomainName.def
            /\ model.aadDomainName.v # <<>>
            /\ model.aadDomainName = page.successfullyValidatedEntraDomain

\* C1: the validator registered by onPageEnter answers true exactly for a
\* backward page change or when a login is selected, the target is validated,
\* every selected login was validated and, with Windows logins selected, the
\* Entra domain is non-empty and the validated one; every refusal leaves an
\* Error-level wizard message.
C1_ValidatorAnswer ==
    (nav.called /\ wizard.navigationValidator = "loginSelector") =>
        /\ nav.result = AcceptedPageChange(nav.newPage, nav.lastPage)
        /\ ~nav.result => (wizard.message.level = "Error" /\ wizard.message.text # "")

C1_Witness ==
    /\ nav.called /\ nav.result /\ nav.newPage = "next"
    /\ selectedWindowsLogins(Cur)
    /\ wizard.navigationValidator = "loginSelector"

\* C2: selectedLogins returns, for every selected row index below the number
\* of displayed rows, in order, the name, type, default database and status
\* of that displayed row.
C2_SelectedLoginsOfRows ==
    LET rows == view.loginSelectorTable.data
        idx == SelectSeq(view.loginSelectorTable.selectedRows,
                         LAMBDA i : i < Len(rows))
    IN selectedLogins(Cur) =
         [k \in 1..Len(idx) |->
            [loginName |-> rows[idx[k] + 1][2],
             loginType |-> rows[idx[k] + 1][3],
             defaultDatabaseName |-> rows[idx[k] + 1][4],
             status |-> rows[idx[k] + 1][5]]]

\* C3: when a login query has failed and _getSourceLogins / _getTargetLogins
\* has returned to _loadLoginList, the wizard shows the Error-level message
\* naming the failed side, the loading indicator is off, and the query was
\* issued once.
C3_QueryFailureCaught ==
    \A s \in 1..MaxLoads :
        /\ (loads[s].pc = "afterSource" /\ loads[s].sourceQuery = "failed") =>
              /\ wizard.message =
                     ErrorMessage("LOGIN_MIGRATIONS_GET_LOGINS_ERROR_TITLE(source)")
              /\ ~view.refreshLoading
        /\ (loads[s].pc = "afterTarget" /\ loads[s].targetQuery = "failed") =>
              /\ wizard.message =
                     ErrorMessage("LOGIN_MIGRATIONS_GET_LOGINS_ERROR_TITLE(target)")
              /\ ~view.refreshLoading
        /\ loads[s].sourceQuery = "failed" => loads[s].sourceIssued = 1
        /\ loads[s].targetQuery = "failed" => loads[s].targetIssued = 1

C3_Witness ==
    \E s \in 1..MaxLoads :
        /\ loads[s].pc = "afterTarget"
        /\ loads[s].targetQuery = "failed"
        /\ loads[s].sourceQuery = "failed"

\* C4: a load in which a login query failed ends with the refresh-results
\* info box in style 'error' showing the refresh-failed text.
C4_FailureShownAfterLoad ==
    [][\A s \in 1..MaxLoads :
          (/\ loads[s].pc \in {"afterSource", "afterTarget"}
           /\ loads'[s].pc = "idle"
           /\ (loads[s].sourceQuery = "failed" \/ loads[s].targetQuery = "failed"))
          => /\ view'.refreshResultsInfoBox.style = "error"
             /\ view'.refreshResultsInfoBox.text.id \in
                    {"LOGIN_MIGRATION_REFRESH_SOURCE_LOGIN_DATA_FAILED",
                     "LOGIN_MIGRATION_REFRESH_TARGET_LOGIN_DATA_FAILED"}]_vars

\* a page-enter or refresh-click callback has started and is suspended in
\* its _loadLoginList
UnfinishedCallback == \E s \in 1..MaxLoads : loads[s].pc # "idle"

\* C5: no UI callback starts while an earlier one is unfinished, and no two
\* executions of _loadLoginList are in progress at the same time.
C5_CallbacksSequential ==
    /\ [][events' # events => ~UnfinishedCallback]_vars
    /\ [](Cardinality({s \in 1..MaxLoads : loads[s].pc # "idle"}) <= 1)

\* C6: in one execution of _loadLoginList the target query is not started
\* while the source query is outstanding, and each query is issued at most
\* once.
C6_QueriesSequential ==
    \A s \in 1..MaxLoads :
        /\ loads[s].targetIssued > 0 => loads[s].sourceQuery # "pending"
        /\ loads[s].sourceIssued <= 1
        /\ loads[s].targetIssued <= 1

C6_Witness ==
    \E s \in 1..MaxLoads :
        /\ loads[s].pc = "awaitTarget"
        /\ loads[s].sourceQuery = "failed"
        /\ loads[s].targetIssued = 1

\* s contains t, ignoring case
ContainsIgnoringCase(s, t) ==
    \E k \in 0..(Len(s) - Len(t)) :
        \A j \in 1..Len(t) : LowerChar(s[k + j]) = LowerChar(t[j])

\* the rows of a row list that C7 says are displayed for a search value;
\* first is the position of the source-login column in a row
DisplayedRows(tableValues, value, first) ==
    IF ~tableValues.def THEN <<>>
    ELSE IF ~value.def \/ value.v = <<>> THEN tableValues.v
    ELSE SelectSeq(tableValues.v, LAMBDA row :
             \/ \E c \in first..(first + 2) : ContainsIgnoringCase(row[c], value.v)
             \/ ContainsIgnoringCase(row[first + 3].v, value.v)
             \/ ContainsIgnoringCase(row[first + 4].title, value.v))

\* C7: when the body of _filterTableList runs with a value, the login table
\* displays exactly the rows of the full row list, in order, one of whose
\* five text columns contains the value ignoring case, and all rows for an
\* empty or undefined value; the system-login table always displays its row
\* list filtered the same way by the last system search value.
C7_FilterIsSubstringMatch ==
    /\ [][(filterTimer.pending /\ ~filterTimer'.pending) =>
             view'.loginSelectorTable.data =
                 DisplayedRows(page.loginTableValues, filterTimer.value, 2)]_vars
    /\ [](view.systemLoginTable =
             DisplayedRows(page.systemLoginTableValues,
                           page.filterSystemLoginTableValue, 1))

C7_Witness ==
    /\ page.filterTableValue = Some(<<"W">>)
    /\ page.loginTableValues.def
    /\ Len(page.loginTableValues.v) = 2
    /\ Len(view.loginSelectorTable.data) = 1
    /\ page.filterSystemLoginTableValue = Some(<<"A">>)
    /\ Len(view.systemLoginTable) = 1

\* a step in which _loadLoginList(runQuery) begins, for page enter and for
\* a refresh click
EnterStep == ~page.isCurrentPage /\ page'.isCurrentPage
RefreshStep ==
    /\ events' # events
    /\ page.isCurrentPage /\ page'.isCurrentPage
    /\ loads' # loads

SourceIssuedAtBegin == \E s \in 1..MaxLoads : loads[s].pc = "idle" /\ loads'[s].sourceIssued = 1
TargetIssuedAtBegin == \E s \in 1..MaxLoads : loads[s].pc = "idle" /\ loads'[s].targetIssued = 1

\* what decides that the target query is issued: by C8 as written, and by
\* C8 amended with the target instance
TargetWanted(runQuery, amended) ==
    /\ runQuery \/ ~model.collectedTargetLogins
    /\ amended => model.targetInstanceSet

LoadQueriesDecided(amended) ==
    /\ EnterStep =>
         /\ SourceIssuedAtBegin <=> ~model.collectedSourceLogins
         /\ ~SourceIssuedAtBegin => (TargetIssuedAtBegin <=> TargetWanted(FALSE, amended))
    /\ RefreshStep => SourceIssuedAtBegin
    /\ \A s \in 1..MaxLoads :
         loads[s].pc = "afterSource" =>
             ((loads'[s].targetIssued = 1) <=> TargetWanted(loads[s].runQuery, amended))

\* C8 as written: a load issues the source query exactly if asked to or if
\* source logins were not collected before, and the target query exactly if
\* asked to or if target logins were not collected before.
C8_QueriesIssuedWhenWanted == [][LoadQueriesDecided(FALSE)]_vars

\* C8 amended: a load issues the source query exactly if asked to or if
\* source logins were not collected before, and the target query exactly if
\* (asked to or target logins were not collected before) and the target
\* instance, user name and password are set.
C8_QueriesIssuedWhenWantedAndTargetSet == [][LoadQueriesDecided(TRUE)]_vars

C8_Witness ==
    /\ ~model.targetInstanceSet
    /\ model.collectedSourceLogins
    /\ ~model.collectedTargetLogins
    /\ page.loginTableValues.def
    /\ \A s \in 1..MaxLoads : loads[s].pc = "idle"

\* the state model holds LoginAb as saved login when the wizard opens
InitSaved == Init /\ model.loginsForMigration = Some(<<LoginAb>>)
SpecSaved == InitSaved /\ [][Next]_vars

\* C9 (under SpecSaved): once registerContent and the load of the first
\* onPageEnter have finished, the saved login, if among the source logins,
\* is on a selected row of the table and is still in loginsForMigration.
C9_SavedLoginsPreselected ==
    (/\ events = 1
     /\ page.isCurrentPage
     /\ page.loginTableValues.def
     /\ \A s \in 1..MaxLoads : loads[s].pc = "idle"
     /\ ~filterTimer.pending
     /\ ~filterRun.active)
    => \A i \in 1..Len(model.loginsOnSource) :
          model.loginsOnSource[i].loginName = LoginAb.loginName =>
             /\ LoginAb.loginName \in SelectedNames
             /\ model.loginsForMigration.def
             /\ \E j \in 1..Len(model.loginsForMigration.v) :
                   model.loginsForMigration.v[j].loginName = LoginAb.loginName

\* C10: the validation dialog opens only while at least one login is
\* selected for migration, and then with the validation results stored in
\* the state model; a click without one leaves the dialog closed and sets
\* the Error-level 'select login to continue' message.
C10_DialogNeedsSelectedLogin ==
    [][/\ (~dialog.open /\ dialog'.open) =>
             /\ HasLoginsForMigration(Cur)
             /\ dialog'.results = model.validateLoginMigration
       /\ (wizard'.message = ErrorMessage("SELECT_LOGIN_TO_CONTINUE")
              /\ wizard.message # wizard'.message) =>
             (~HasLoginsForMigration(Cur) /\ ~dialog'.open)]_vars

\* ------------------------------------------------------------------- C11
\* onPageLeave ran last: its navigation validator is the registered one
PageWasLeft == wizard.navigationValidator = "acceptAll"

\* onPageEnter ran last: its navigation validator is the registered one
PageWasEntered == wizard.navigationValidator = "loginSelector"

DefaultNextButton == [label |-> "NEXT_LABEL", enabled |-> TRUE]

\* the state onPageLeave leaves behind, as C11 describes it
LeftPageState ==
    /\ wizard.customButtonHidden
    /\ \A newPage \in PageNumbers, lastPage \in PageNumbers :
         AcceptAllValidator(Cur, newPage, lastPage).result
    /\ wizard.nextButton = DefaultNextButton
    /\ ~page.isCurrentPage

\* C11: leaving the page undoes what entering it set up: after onPageLeave
\* the validate button is hidden, the registered validator accepts every
\* page change, the Next button has the default label and is enabled and the
\* page is not current; after onPageEnter the validate button is visible and
\* the page is current; so the validate button is visible exactly when the
\* page is the current page.
C11_LeaveUndoesEnter ==
    /\ PageWasLeft => LeftPageState
    /\ PageWasEntered => (~wizard.customButtonHidden /\ page.isCurrentPage)
    /\ ~wizard.customButtonHidden <=> page.isCurrentPage

\* the part of C11 that the handlers do establish: the state right after
\* onPageLeave, the state right after the synchronous part of onPageEnter,
\* and the validate button following the current-page flag
HandlersPostState ==
    /\ (page.isCurrentPage /\ ~page'.isCurrentPage) => (PageWasLeft /\ LeftPageState)'
    /\ (~page.isCurrentPage /\ page'.isCurrentPage) =>
           (PageWasEntered /\ ~wizard.customButtonHidden)'

LeaveAndEnterPostStates == [][HandlersPostState]_vars

ValidateButtonTracksCurrentPage == ~wizard.customButtonHidden <=> page.isCurrentPage

\* a load of the page that was left disabled the Next button afterwards
NextDisabledAfterLeave == PageWasLeft /\ ~wizard.nextButton.enabled

====
